---- MODULE Spec2Model ----
(***************************************************************************)
(* Model of the compiler-argument handler Cargs of src/make/maker.py:      *)
(* registration of argument specifications (add_argument), the token scan  *)
(* (load) and the result container (DictObject).                           *)
(*                                                                         *)
(* Python values are tagged records (PyVal).  A Python list is a reference *)
(* into `heap`, so that two holders of the same list see each other's      *)
(* appends, as they do in Python.  Strings that the code looks into with   *)
(* a regular expression (tokens, patterns) are sequences of characters;    *)
(* strings it only compares whole ('switch', 'next', '*', 'a.out') are     *)
(* one-symbol sequences.                                                   *)
(***************************************************************************)
EXTENDS Integers, Sequences, FiniteSets, TLC

VARIABLES config, opt_specs, pos_specs, values, heap, arguments,
          pc, args, position, pos_index, result, returned, err, answer

vars == <<config, opt_specs, pos_specs, values, heap, arguments,
          pc, args, position, pos_index, result, returned, err, answer>>

(* ------------------------------ bounds -------------------------------- *)

\* longest token vector handed to one load call
MaxLen == 3

\* number of load calls made on one engine
MaxCalls == 2

\* total number of tokens handed to the load calls of one engine
MaxTotal == 3

Calls == 1 .. MaxCalls

(* --------------------------- Python values ---------------------------- *)

PyVal(t, b, s, n, ref) == [t |-> t, b |-> b, s |-> s, n |-> n, ref |-> ref]

NoneVal == PyVal("none", FALSE, <<>>, 0, 0)

PyBool(b) == PyVal("bool", b, <<>>, 0, 0)

PyStr(s) == PyVal("str", FALSE, s, 0, 0)

Word(w) == PyStr(<<w>>)

PyInt(n) == PyVal("int", FALSE, <<>>, n, 0)

ListRef(r) == PyVal("list", FALSE, <<>>, 0, r)

\* what a reader of value v sees when the lists are as in heap h
Observe(v, h) ==
    [t |-> v.t, b |-> v.b, s |-> v.s, n |-> v.n,
     items |-> IF v.t = "list" THEN h[v.ref] ELSE <<>>]

ObserveAll(vs, h) == [k \in DOMAIN vs |-> Observe(vs[k], h)]

\* a pattern of None (positional argument)
None == <<"None">>

EmptyDict == [k \in {} |-> NoneVal]

\* dict.setdefault( k, v )
SetDefault(d, k, v) ==
    IF k \in DOMAIN d THEN d
    ELSE [x \in DOMAIN d \cup {k} |-> IF x = k THEN v ELSE d[x]]

\* d[ k ] = v
SetItem(d, k, v) ==
    [x \in DOMAIN d \cup {k} |-> IF x = k THEN v ELSE d[x]]

\* dict.get( k, v )
Get(d, k, v) == IF k \in DOMAIN d THEN d[k] ELSE v

(* ------------------------- regular expressions ------------------------ *)
\* The patterns of the program are a literal text optionally followed by
\* one group of any characters, quantified by a star or a plus.  re.match
\* anchors at the start of the string only.

\* index of the first occurrence of character ch in s at or after i, 0 if none
RECURSIVE IndexFrom(_, _, _)
IndexFrom(s, ch, i) ==
    IF i > Len(s) THEN 0
    ELSE IF s[i] = ch THEN i
    ELSE IndexFrom(s, ch, i + 1)

\* the literal text of a pattern: everything before its group
Literal(patt) ==
    LET i == IndexFrom(patt, "(", 1)
    IN  IF i = 0 THEN patt ELSE SubSeq(patt, 1, i - 1)

\* the quantifier of the pattern's group: "*", "+" or "none"
Quantifier(patt) ==
    LET i == IndexFrom(patt, "(", 1)
    IN  IF i = 0 \/ i + 2 > Len(patt) THEN "none" ELSE patt[i + 2]

\* re.match( r'[^(]*\([^)]+\).*', pattern ) is not None
HasGroup(patt) ==
    LET i == IndexFrom(patt, "(", 1)
        j == IF i = 0 THEN 0 ELSE IndexFrom(patt, ")", i + 1)
    IN  i # 0 /\ j >= i + 2

\* re.match( patt, arg ): ok, and the text of group 1
ReMatch(patt, arg) ==
    LET lit == Literal(patt)
        q   == Quantifier(patt)
        n   == Len(lit)
    IN  [ok |-> /\ Len(arg) >= n
                /\ SubSeq(arg, 1, n) = lit
                /\ (q = "+" => Len(arg) > n),
         g1 |-> SubSeq(arg, n + 1, Len(arg))]

(* --------------------------- configuration ---------------------------- *)

Chars(w) ==
    CASE w = "-g"     -> <<"-", "g">>
      [] w = "-c"     -> <<"-", "c">>
      [] w = "-o"     -> <<"-", "o">>
      [] w = "-O(.*)" -> <<"-", "O", "(", ".", "*", ")">>
      [] w = "-W(.*)" -> <<"-", "W", "(", ".", "*", ")">>
      [] w = "-l(.+)" -> <<"-", "l", "(", ".", "+", ")">>
      [] w = "-L(.+)" -> <<"-", "L", "(", ".", "+", ")">>
      [] w = "-I(.+)" -> <<"-", "I", "(", ".", "+", ")">>
      [] w = "-(.+)"  -> <<"-", "(", ".", "+", ")">>
      [] w = "-O3"    -> <<"-", "O", "3">>
      [] w = "-gfoo"  -> <<"-", "g", "f", "o", "o">>
      [] w = "main.c" -> <<"m", "a", "i", "n", ".", "c">>
      [] w = "3"      -> <<"3">>
      [] w = "-lm"    -> <<"-", "l", "m">>
      [] w = "m"      -> <<"m">>

Decl(key, patt, conf) == [key |-> key, patt |-> patt, conf |-> conf]

CountStar == [count |-> Word("*")]

CountPlus == [count |-> Word("+")]

\* config[ 'compiler' ]
DefaultConfig ==
    << Decl("debug",     Chars("-g"),     [type |-> Word("switch")]),
       Decl("optimize",  Chars("-O(.*)"), EmptyDict),
       Decl("warn",      Chars("-W(.*)"), EmptyDict),
       Decl("lib",       Chars("-l(.+)"), CountStar),
       Decl("libsearch", Chars("-L(.+)"), CountStar),
       Decl("incsearch", Chars("-I(.+)"), CountStar),
       Decl("compile",   Chars("-c"),     [type |-> Word("switch")]),
       Decl("output",    Chars("-o"),
            [type |-> Word("next"), default |-> Word("a.out")]),
       Decl("unknown",   Chars("-(.+)"),  CountStar),
       Decl("input",     None,            CountPlus) >>

\* a grammar with a repeatable next-token option and a fixed-length
\* positional list
ExactConfig ==
    << Decl("debug",  Chars("-g"), EmptyDict),
       Decl("output", Chars("-o"), CountStar),
       Decl("pair",   None,        [count |-> PyInt(2)]) >>

\* a grammar of positional arguments: a single one, an open-ended list and
\* a single one after it
OpenConfig ==
    << Decl("src",  None, EmptyDict),
       Decl("rest", None, CountStar),
       Decl("last", None, EmptyDict) >>

\* a grammar with a switch whose default is given, an option with an empty
\* pattern and a key declared twice
RepeatConfig ==
    << Decl("debug", Chars("-g"), [default |-> PyBool(TRUE)]),
       Decl("any",   <<>>,        EmptyDict),
       Decl("debug", None,        EmptyDict) >>

\* a grammar without positional arguments
SwitchConfig ==
    << Decl("debug", Chars("-g"), EmptyDict) >>

Configs == {DefaultConfig, ExactConfig, SwitchConfig, OpenConfig, RepeatConfig}

\* the tokens the argument vectors are made of
Tokens ==
    {Chars("-g"), Chars("-O3"), Chars("-o"), Chars("main.c"), Chars("-gfoo"),
     Chars("-lm")}

\* the token vectors of length n
RECURSIVE SeqsOfLen(_, _)
SeqsOfLen(S, n) ==
    IF n = 0 THEN {<<>>}
    ELSE {Append(s, x) : s \in SeqsOfLen(S, n - 1), x \in S}

ArgVectors == [n \in 0 .. MaxLen |-> SeqsOfLen(Tokens, n)]

(* ---------------------------- add_argument ---------------------------- *)

\* InferType, had the test for a self-capturing pattern been made for every
\* option instead of only for those with a count
InferTypeGroupFirst(patt, kwargs) ==
    IF HasGroup(patt)
    THEN SetDefault(kwargs, "type", PyInt(1))
    ELSE IF "count" \in DOMAIN kwargs
    THEN SetDefault(kwargs, "type", Word("next"))
    ELSE SetDefault(kwargs, "type", Word("switch"))

\* the capture type the registration settles on (kwargs after the
\* setdefault( 'type', ... ) calls)
InferType(patt, kwargs) ==
    IF "count" \in DOMAIN kwargs
    THEN IF HasGroup(patt)
         THEN SetDefault(kwargs, "type", PyInt(1))
         ELSE SetDefault(kwargs, "type", Word("next"))
    ELSE SetDefault(kwargs, "type", Word("switch"))

\* InferDefault, had the automatic default of the switches been left out
InferDefaultSkipped(kwargs) == kwargs

\* switch-type options get an automatic default
InferDefault(kwargs) ==
    IF kwargs["type"] = Word("switch")
    THEN SetDefault(kwargs, "default", PyBool(FALSE))
    ELSE kwargs

\* kwargs as stored in the specification
Resolve(patt, kwargs) ==
    IF patt # None THEN InferDefault(InferType(patt, kwargs)) ELSE kwargs

\* the declarations registered so far
NumRegistered == Len(opt_specs) + Len(pos_specs)

Registered == NumRegistered = Len(config)

\* the engine's registrations and values
Engine(vs, h, opts, poss) ==
    [values |-> vs, heap |-> h, opt_specs |-> opts, pos_specs |-> poss]

\* add_argument( key, pattern, **kwargs ) on engine e
Register(e, d) ==
    LET kwargs == Resolve(d.patt, d.conf)
        fresh  == "count" \in DOMAIN kwargs /\ "default" \notin DOMAIN kwargs
        default == IF "count" \in DOMAIN kwargs
                   THEN Get(kwargs, "default", ListRef(Len(e.heap) + 1))
                   ELSE Get(kwargs, "default", NoneVal)
    IN  Engine(SetItem(e.values, d.key, default),
               IF fresh THEN Append(e.heap, <<>>) ELSE e.heap,
               IF d.patt # None
               THEN Append(e.opt_specs, Decl(d.key, d.patt, kwargs))
               ELSE e.opt_specs,
               IF d.patt # None
               THEN e.pos_specs
               ELSE Append(e.pos_specs, Decl(d.key, None, kwargs)))

\* no get call has been made since the engine last changed
NoGet == [key |-> "", raise |-> "", value |-> NoneVal]

add_argument ==
    /\ NumRegistered < Len(config)
    /\ \A c \in Calls : pc[c] # "scan"
    /\ LET e == Register(Engine(values, heap, opt_specs, pos_specs),
                         config[NumRegistered + 1])
       IN  /\ heap' = e.heap
           /\ values' = e.values
           /\ opt_specs' = e.opt_specs
           /\ pos_specs' = e.pos_specs
    /\ answer' = NoGet
    /\ UNCHANGED <<config, arguments, pc, args, position, pos_index,
                   result, returned, err>>

\* the keys the caller asks for
GetKeys == {"debug", "nokey"}

\* GetValue, had the lookup been made with dict.get
GetValueLenient(vs, key) ==
    [key |-> key, raise |-> "", value |-> Get(vs, key, NoneVal)]

\* what get( key ) raises or returns
GetValue(vs, key) ==
    IF key \notin DOMAIN vs
    THEN [key |-> key, raise |-> "ValueError", value |-> NoneVal]
    ELSE [key |-> key, raise |-> "", value |-> vs[key]]

\* get( key ), called between the load calls
get(key) ==
    /\ \A c \in Calls : pc[c] # "scan"
    /\ answer' = GetValue(values, key)
    /\ UNCHANGED <<config, opt_specs, pos_specs, values, heap, arguments,
                   pc, args, position, pos_index, result, returned, err>>

(* -------------------------------- load -------------------------------- *)

\* index of the first option specification whose pattern matches arg from
\* specification i on, 0 if none does
RECURSIVE FirstMatchFrom(_, _, _)
FirstMatchFrom(specs, arg, i) ==
    IF i > Len(specs) THEN 0
    ELSE IF ReMatch(specs[i].patt, arg).ok THEN i
    ELSE FirstMatchFrom(specs, arg, i + 1)

\* FirstMatch, had the loop over _opt_specs not left at the first match:
\* the last matching specification
LastMatch(specs, arg) ==
    LET ms == {i \in 1 .. Len(specs) : ReMatch(specs[i].patt, arg).ok}
    IN  IF ms = {} THEN 0 ELSE CHOOSE i \in ms : \A j \in ms : j <= i

\* the option specification that captures arg (the loop over _opt_specs
\* leaves at the first match)
FirstMatch(specs, arg) == FirstMatchFrom(specs, arg, 1)

\* OptionValue, had the test for a following token been left out
OptionValueUnchecked(spec, arglist, at) ==
    LET type == spec.conf["type"]
    IN  IF type = Word("next")
        THEN [raise |-> "",
              value |-> IF at + 2 <= Len(arglist)
                        THEN PyStr(arglist[at + 2]) ELSE NoneVal]
        ELSE IF type = Word("switch")
        THEN [raise |-> "", value |-> PyBool(TRUE)]
        ELSE [raise |-> "", value |-> PyStr(ReMatch(spec.patt, arglist[at + 1]).g1)]

\* what a matching option makes of the token at `at` (0-based): the
\* exception it raises, or the value it captures
OptionValue(spec, arglist, at) ==
    LET type == spec.conf["type"]
    IN  IF type = Word("next")
        THEN IF at >= Len(arglist) - 1
             THEN [raise |-> "ValueError", value |-> NoneVal]
             ELSE [raise |-> "", value |-> PyStr(arglist[at + 2])]
        ELSE IF type = Word("switch")
        THEN [raise |-> "", value |-> PyBool(TRUE)]
        ELSE [raise |-> "", value |-> PyStr(ReMatch(spec.patt, arglist[at + 1]).g1)]

\* PositionalSpec, had the index been kept within the list: the last
\* specification takes the tokens that are too many
PositionalSpecClamped(specs, index) ==
    IF Len(specs) = 0
    THEN [raise |-> "IndexError", at |-> 0]
    ELSE [raise |-> "", at |-> IF index >= Len(specs) THEN Len(specs) ELSE index + 1]

\* the positional specification a token not captured by an option goes to
PositionalSpec(specs, index) ==
    IF index >= Len(specs)
    THEN [raise |-> "IndexError", at |-> 0]
    ELSE [raise |-> "", at |-> index + 1]

\* SetValue, had the value been put at the head of the list
SetValuePrepend(vs, h, spec, value) ==
    IF "count" \in DOMAIN spec.conf
    THEN IF vs[spec.key].t = "list"
         THEN [raise |-> "", values |-> vs,
               heap |-> [h EXCEPT ![vs[spec.key].ref] = <<value>> \o @]]
         ELSE [raise |-> "AttributeError", values |-> vs, heap |-> h]
    ELSE [raise |-> "", values |-> SetItem(vs, spec.key, value), heap |-> h]

\* _set( spec, value ): the values mapping and the heap afterwards
SetValue(vs, h, spec, value) ==
    IF "count" \in DOMAIN spec.conf
    THEN IF vs[spec.key].t = "list"
         THEN [raise |-> "", values |-> vs,
               heap |-> [h EXCEPT ![vs[spec.key].ref] = Append(@, value)]]
         ELSE [raise |-> "AttributeError", values |-> vs, heap |-> h]
    ELSE [raise |-> "", values |-> SetItem(vs, spec.key, value), heap |-> h]

\* NextPosIndex, had the index been moved after every positional token
NextPosIndexAlways(spec, vs, h, index) == index + 1

\* the positional index after the specification took the token
NextPosIndex(spec, vs, h, index) ==
    IF "count" \in DOMAIN spec.conf
    THEN IF spec.conf["count"].t = "int"
            /\ Len(h[vs[spec.key].ref]) >= spec.conf["count"].n
         THEN index + 1
         ELSE index
    ELSE index + 1

TotalLoaded ==
    LET RECURSIVE Sum(_)
        Sum(c) == IF c = 0 THEN 0 ELSE Len(args[c]) + Sum(c - 1)
    IN  Sum(MaxCalls)

\* load( arguments ) is entered
LoadEnter(c) ==
    /\ Registered
    /\ pc[c] = "idle"
    /\ \A d \in Calls : d < c => pc[d] # "idle"
    /\ \E n \in 0 .. MaxLen :
          /\ TotalLoaded + n <= MaxTotal
          /\ \E a \in ArgVectors[n] : args' = [args EXCEPT ![c] = a]
    /\ pc' = [pc EXCEPT ![c] = "scan"]
    /\ position' = [position EXCEPT ![c] = 0]
    /\ pos_index' = [pos_index EXCEPT ![c] = 0]
    /\ answer' = NoGet
    /\ UNCHANGED <<config, opt_specs, pos_specs, values, heap, arguments,
                   result, returned, err>>

\* load( arguments ) is entered by a caller that makes one call at a time
LoadBegin(c) ==
    /\ \A d \in Calls : pc[d] # "scan"
    /\ LoadEnter(c)

\* one pass of the loop over the argument list, at `at` (0-based) with the
\* positional index at `index`: the exception raised, or the values, the
\* heap and the positional index afterwards
Pass(vs, h, opts, poss, arglist, at, index) ==
    LET arg  == arglist[at + 1]
        m    == FirstMatch(opts, arg)
        fail(e) == [raise |-> e, values |-> vs, heap |-> h, pos_index |-> index]
    IN  IF m # 0
        THEN LET spec == opts[m]
                 out  == OptionValue(spec, arglist, at)
                 set  == SetValue(vs, h, spec, out.value)
             IN  IF out.raise # "" THEN fail(out.raise)
                 ELSE IF set.raise # "" THEN fail(set.raise)
                 ELSE [raise |-> "", values |-> set.values, heap |-> set.heap,
                       pos_index |-> index]
        ELSE LET ps == PositionalSpec(poss, index)
             IN  IF ps.raise # "" THEN fail(ps.raise)
                 ELSE LET spec == poss[ps.at]
                          set  == SetValue(vs, h, spec, PyStr(arg))
                      IN  IF set.raise # "" THEN fail(set.raise)
                          ELSE [raise |-> "", values |-> set.values,
                                heap |-> set.heap,
                                pos_index |-> NextPosIndex(spec, set.values,
                                                           set.heap, index)]

\* one pass of the loop over the argument list
Dispatch(c) ==
    /\ pc[c] = "scan"
    /\ position[c] < Len(args[c])
    /\ LET p == Pass(values, heap, opt_specs, pos_specs,
                     args[c], position[c], pos_index[c])
       IN  IF p.raise # ""
           THEN /\ pc' = [pc EXCEPT ![c] = "raised"]
                /\ err' = [err EXCEPT ![c] = p.raise]
                /\ position' = [position EXCEPT ![c] = 0]
                /\ pos_index' = [pos_index EXCEPT ![c] = 0]
                /\ UNCHANGED <<values, heap>>
           ELSE /\ values' = p.values
                /\ heap' = p.heap
                /\ position' = [position EXCEPT ![c] = @ + 1]
                /\ pos_index' = [pos_index EXCEPT ![c] = p.pos_index]
                /\ UNCHANGED <<pc, err>>
    /\ answer' = NoGet
    /\ UNCHANGED <<config, opt_specs, pos_specs, arguments, args,
                   result, returned>>

\* DictObject( **self._values ): a new mapping holding the same objects
DictObject(vs) == [k \in DOMAIN vs |-> vs[k]]

\* the loop is over: the arguments are stored and the container returned
LoadReturn(c) ==
    /\ pc[c] = "scan"
    /\ position[c] = Len(args[c])
    /\ arguments' = args[c]
    /\ result' = [result EXCEPT ![c] = DictObject(values)]
    /\ returned' = [returned EXCEPT ![c] = ObserveAll(values, heap)]
    /\ pc' = [pc EXCEPT ![c] = "done"]
    /\ position' = [position EXCEPT ![c] = 0]
    /\ pos_index' = [pos_index EXCEPT ![c] = 0]
    /\ answer' = NoGet
    /\ UNCHANGED <<config, opt_specs, pos_specs, values, heap, args, err>>

\* the engine after the first n declarations of cfg have been registered
RECURSIVE Configured(_, _)
Configured(cfg, n) ==
    IF n = 0 THEN Engine(EmptyDict, <<>>, <<>>, <<>>)
    ELSE Register(Configured(cfg, n - 1), cfg[n])

\* the loop over the argument list from `at` on, with no other call on the
\* engine: the exception raised, or the values and the heap at the return
RECURSIVE Scan(_, _, _, _, _, _, _)
Scan(vs, h, opts, poss, arglist, at, index) ==
    IF at >= Len(arglist)
    THEN [raise |-> "", values |-> vs, heap |-> h]
    ELSE LET p == Pass(vs, h, opts, poss, arglist, at, index)
         IN  IF p.raise # ""
             THEN [raise |-> p.raise, values |-> vs, heap |-> h]
             ELSE Scan(p.values, p.heap, opts, poss, arglist, at + 1, p.pos_index)

\* load( arglist ) as the only call on an engine configured with cfg
LoadAlone(cfg, arglist) ==
    LET e == Configured(cfg, Len(cfg))
    IN  Scan(e.values, e.heap, e.opt_specs, e.pos_specs, arglist, 0, 0)

(* --------------------------- specification ---------------------------- *)

\* Cargs.__init__, and a configuration chosen by the caller
Init ==
    /\ config \in Configs
    /\ opt_specs = <<>>
    /\ pos_specs = <<>>
    /\ values = EmptyDict
    /\ heap = <<>>
    /\ arguments = <<>>
    /\ pc = [c \in Calls |-> "idle"]
    /\ args = [c \in Calls |-> <<>>]
    /\ position = [c \in Calls |-> 0]
    /\ pos_index = [c \in Calls |-> 0]
    /\ result = [c \in Calls |-> EmptyDict]
    /\ returned = [c \in Calls |-> EmptyDict]
    /\ err = [c \in Calls |-> ""]
    /\ answer = NoGet

Next ==
    \/ add_argument
    \/ \E key \in GetKeys : get(key)
    \/ \E c \in Calls : LoadBegin(c)
    \/ \E c \in Calls : Dispatch(c)
    \/ \E c \in Calls : LoadReturn(c)

Spec == Init /\ [][Next]_vars

\* load calls made from several threads: a call may be entered while
\* another is in its loop
NextConcurrent ==
    \/ add_argument
    \/ \E c \in Calls : LoadEnter(c)
    \/ \E c \in Calls : Dispatch(c)
    \/ \E c \in Calls : LoadReturn(c)

SpecConcurrent == Init /\ [][NextConcurrent]_vars

(* ------------------------------ properties ---------------------------- *)

\* the token call c is about to dispatch
CurArg(c) == args[c][position[c] + 1]

\* call c is about to dispatch a token
Scanning(c) == pc[c] = "scan" /\ position[c] < Len(args[c])

\* the step is one of call c
StepOf(c) == pc'[c] # pc[c] \/ position'[c] # position[c]

OptIndices == 1 .. Len(opt_specs)

\* the options whose patterns match token arg, as re.match has it
Matching(arg) == {i \in OptIndices : ReMatch(opt_specs[i].patt, arg).ok}

\* the earliest-registered option whose pattern matches arg claims it
Claims(i, arg) == i \in Matching(arg) /\ \A j \in Matching(arg) : i <= j

\* the pattern matches the whole of the token
FullMatch(patt, arg) ==
    /\ ReMatch(patt, arg).ok
    /\ Quantifier(patt) = "none" => Len(arg) = Len(Literal(patt))

\* what is seen of a scalar value
Seen(v) == Observe(v, <<>>)

\* what is seen of a list of strings
SeenList(strs) ==
    [t |-> "list", b |-> FALSE, s |-> <<>>, n |-> 0,
     items |-> [i \in 1 .. Len(strs) |-> PyStr(strs[i])]]

DefaultOf(spec) ==
    IF "count" \in DOMAIN spec.conf
    THEN Get(spec.conf, "default", ListRef(0))
    ELSE Get(spec.conf, "default", NoneVal)

\* C1: when a next-token option claims the token at i and i is not the last
\* index, the scan resumes at i+2, so that the token at i+1 is not dispatched
\* again.
C1_NextTokenSkipsConsumed ==
    [][\A c \in Calls :
          ( /\ Scanning(c)
            /\ position[c] < Len(args[c]) - 1
            /\ \E i \in OptIndices :
                  Claims(i, CurArg(c)) /\ opt_specs[i].conf["type"] = Word("next")
            /\ StepOf(c) )
          => (pc'[c] = "scan" /\ position'[c] = position[c] + 2)]_vars

\* C2: a load call returns no result when a positional declaration with
\* count '+' or an integer count holds fewer values than it requires.
C2_MissingRequiredPositional ==
    \A c \in Calls :
        pc[c] = "done" =>
            \A i \in 1 .. Len(pos_specs) :
                LET spec == pos_specs[i]
                    got  == Len(returned[c][spec.key].items)
                IN  "count" \in DOMAIN spec.conf =>
                        /\ spec.conf["count"] = Word("+") => got >= 1
                        /\ spec.conf["count"].t = "int" => got >= spec.conf["count"].n

\* C3: two load calls with the same token vector on the same declarations
\* return identical result mappings.
C3_ReparseIdempotent ==
    \A c, d \in Calls :
        (pc[c] = "done" /\ pc[d] = "done" /\ args[c] = args[d])
            => returned[c] = returned[d]

\* C4: dispatching a token changes the value of an option key only if the
\* pattern of an option with that key matches the whole token.
C4_FullTokenMatch ==
    [][\A c \in Calls :
          (Scanning(c) /\ StepOf(c)) =>
              \A i \in OptIndices :
                  LET key == opt_specs[i].key
                  IN  Observe(values'[key], heap') # Observe(values[key], heap)
                        => \E j \in OptIndices :
                              /\ opt_specs[j].key = key
                              /\ FullMatch(opt_specs[j].patt, CurArg(c))]_vars

\* C5: when the patterns of several options match the dispatched token, the
\* earliest-registered one receives the value and the values of the later
\* ones are unchanged by that token.
C5_FirstMatchWins ==
    [][\A c \in Calls :
          (Scanning(c) /\ StepOf(c)) =>
              \A i, j \in Matching(CurArg(c)) :
                  (i < j /\ opt_specs[i].key # opt_specs[j].key) =>
                      /\ Observe(values'[opt_specs[j].key], heap')
                            = Observe(values[opt_specs[j].key], heap)
                      /\ (Claims(i, CurArg(c)) /\ pc'[c] = "scan") =>
                            LET spec == opt_specs[i]
                                old  == Observe(values[spec.key], heap)
                                new  == Observe(values'[spec.key], heap')
                                got  == IF spec.conf["type"] = Word("switch")
                                        THEN PyBool(TRUE)
                                        ELSE IF spec.conf["type"] = Word("next")
                                        THEN PyStr(args[c][position[c] + 2])
                                        ELSE PyStr(SubSeq(CurArg(c),
                                                   Len(Literal(spec.patt)) + 1,
                                                   Len(CurArg(c))))
                            IN  IF "count" \in DOMAIN spec.conf
                                THEN new.items = Append(old.items, got)
                                ELSE new = Seen(got)]_vars

\* C5 witness: a token that two options match has been dispatched
C5_Witness ==
    \E c \in Calls :
        /\ pc[c] = "scan"
        /\ position[c] >= 1
        /\ Cardinality(Matching(args[c][position[c]])) >= 2
        /\ \E i \in OptIndices :
              /\ Claims(i, args[c][position[c]])
              /\ opt_specs[i].conf["type"] = Word("switch")
              /\ values[opt_specs[i].key] = PyBool(TRUE)

\* C6: after a load call has returned, the value of a switch option is true
\* if and only if a token of that call matches its pattern, and is the
\* declaration's default when none does.
C6_SwitchIffTokenAppeared ==
    \A c \in Calls :
        pc[c] = "done" =>
            \A i \in OptIndices :
                LET spec     == opt_specs[i]
                    appeared == \E n \in 1 .. Len(args[c]) :
                                    ReMatch(spec.patt, args[c][n]).ok
                IN  spec.conf["type"] = Word("switch") =>
                        returned[c][spec.key] =
                            IF appeared THEN Seen(PyBool(TRUE))
                            ELSE Seen(DefaultOf(spec))

\* C7: what is seen through a result that load has returned never changes.
C7_ResultNeverMutated ==
    \A c \in Calls :
        pc[c] = "done" => ObserveAll(result[c], heap) = returned[c]

\* the scenario of C8: the default grammar, first load, -g -O3 main.c
C8_Scenario ==
    /\ config = DefaultConfig
    /\ pc[1] = "done"
    /\ args[1] = <<Chars("-g"), Chars("-O3"), Chars("main.c")>>

\* C8 as stated: -O3 captures its suffix, optimize = "3".
C8_OptimizeCapturesSuffix ==
    C8_Scenario =>
        /\ returned[1]["debug"] = Seen(PyBool(TRUE))
        /\ returned[1]["optimize"] = Seen(PyStr(Chars("3")))
        /\ returned[1]["input"] = SeenList(<<Chars("main.c")>>)
        /\ returned[1]["output"] = Seen(Word("a.out"))

\* C8 amended: with the default grammar -O<text> is a switch; the first load
\* of -g -O3 main.c gives debug = true, optimize = true, input = [main.c]
\* and output = a.out.
C8_OptimizeIsSwitch ==
    C8_Scenario =>
        /\ returned[1]["debug"] = Seen(PyBool(TRUE))
        /\ returned[1]["optimize"] = Seen(PyBool(TRUE))
        /\ returned[1]["input"] = SeenList(<<Chars("main.c")>>)
        /\ returned[1]["output"] = Seen(Word("a.out"))

\* C8 witness: the scenario has been run
C8_Witness == C8_Scenario /\ returned[1]["optimize"].t = "bool"

\* C9: when a next-token option claims the last token of the vector, the
\* call raises the missing-value error at that step and never has a result.
C9_MissingValueAborts ==
    [][\A c \in Calls :
          ( /\ Scanning(c)
            /\ position[c] = Len(args[c]) - 1
            /\ \E i \in OptIndices :
                  Claims(i, CurArg(c)) /\ opt_specs[i].conf["type"] = Word("next")
            /\ StepOf(c) )
          => /\ pc'[c] = "raised"
             /\ err'[c] = "ValueError"
             /\ result'[c] = EmptyDict
             /\ returned'[c] = EmptyDict]_vars

\* C9 witness: the default grammar, load of -o alone, has raised
C9_Witness ==
    \E c \in Calls :
        /\ config = DefaultConfig
        /\ args[c] = <<Chars("-o")>>
        /\ pc[c] = "raised"
        /\ err[c] = "ValueError"

\* C10: when no option matches the token and the positional index is past
\* the last positional specification, the call raises at that step an error
\* other than the missing-value one and never has a result.
C10_TooManyPositionals ==
    [][\A c \in Calls :
          ( /\ Scanning(c)
            /\ Matching(CurArg(c)) = {}
            /\ pos_index[c] >= Len(pos_specs)
            /\ StepOf(c) )
          => /\ pc'[c] = "raised"
             /\ err'[c] = "IndexError"
             /\ err'[c] # "ValueError"
             /\ result'[c] = EmptyDict
             /\ returned'[c] = EmptyDict
             /\ values' = values
             /\ heap' = heap]_vars

\* C10 witness: a call has raised after its positional specifications,
\* of which there was at least one, were used up
C10_Witness ==
    \E c \in Calls :
        /\ pc[c] = "raised"
        /\ err[c] = "IndexError"
        /\ config = ExactConfig
        /\ Len(heap[values["pair"].ref]) >= 2

\* every declaration registered, options first
AllSpecs == opt_specs \o pos_specs

DeclaredKeys == {AllSpecs[i].key : i \in 1 .. Len(AllSpecs)}

\* what is seen of the default of a declaration
SeenDefault(spec) ==
    IF DefaultOf(spec).t = "list" THEN SeenList(<<>>) ELSE Seen(DefaultOf(spec))

\* the values an option or a positional declaration can capture from the
\* tokens of vector a: true, a token, or the end of a token
CapturedValues(a) ==
    {PyBool(TRUE)} \cup
    {PyStr(SubSeq(a[i], k, Len(a[i]))) : i \in 1 .. Len(a), k \in 1 .. 8}

\* C11: a returned result has every declared key, and the value of each key
\* is the default of its declaration or data captured from the tokens of
\* that call.
C11_KeysAndValuesOfThisCall ==
    \A c \in Calls :
        pc[c] = "done" =>
            /\ DOMAIN returned[c] = DeclaredKeys
            /\ \A k \in DeclaredKeys :
                  LET v == returned[c][k]
                  IN  \/ \E i \in 1 .. Len(AllSpecs) :
                            AllSpecs[i].key = k /\ v = SeenDefault(AllSpecs[i])
                      \/ /\ v.t # "list"
                         /\ \E x \in CapturedValues(args[c]) : v = Seen(x)
                      \/ /\ v.t = "list"
                         /\ Len(v.items) <= Len(args[c])
                         /\ \A n \in 1 .. Len(v.items) :
                               v.items[n] \in CapturedValues(args[c])

\* C12: a load call that returns while another call on a different token
\* vector is in progress returns what it would have returned alone.
C12_ConcurrentAsAlone ==
    \A c \in Calls :
        ( /\ pc[c] = "done"
          /\ \A d \in Calls \ {c} :
                \/ pc[d] = "idle"
                \/ pc[d] = "scan" /\ args[d] # args[c] )
        => LET alone == LoadAlone(config, args[c])
           IN  /\ alone.raise = ""
               /\ returned[c] = ObserveAll(alone.values, alone.heap)

\* the values result r shows for positional declarations i and after, one
\* after the other
RECURSIVE PositionalValues(_, _)
PositionalValues(r, i) ==
    IF i > Len(pos_specs) THEN <<>>
    ELSE LET spec == pos_specs[i]
             v    == r[spec.key]
             here == IF "count" \in DOMAIN spec.conf THEN v.items
                     ELSE IF v.t = "none" THEN <<>>
                     ELSE <<PyVal(v.t, v.b, v.s, v.n, 0)>>
         IN  here \o PositionalValues(r, i + 1)

\* C13: when no token of the vector matches an option pattern, the values of
\* the positional declarations of the returned result, taken in declaration
\* order, are the token vector.
C13_PositionalOrder ==
    \A c \in Calls :
        (pc[c] = "done" /\ \A n \in 1 .. Len(args[c]) : Matching(args[c][n]) = {})
            => PositionalValues(returned[c], 1)
                  = [n \in 1 .. Len(args[c]) |-> PyStr(args[c][n])]

\* the declaration is one the registration is to reject: an option with an
\* empty pattern, or a key that is already registered
InvalidDeclaration(d) == d.patt = <<>> \/ d.key \in DOMAIN values

\* C14: a declaration with an empty pattern or an already registered key is
\* added neither to the option or positional specifications nor to the
\* values.
C14_InvalidDeclarationRejected ==
    [][(NumRegistered < Len(config)
            /\ InvalidDeclaration(config[NumRegistered + 1]))
        => /\ opt_specs' = opt_specs
           /\ pos_specs' = pos_specs
           /\ values' = values]_vars

\* C15: get raises the unknown-key error for a key that was never declared,
\* returns the current value of a declared key, and changes nothing of the
\* engine.
C15_GetUnknownKeyFails ==
    [][\A key \in GetKeys :
          (answer' # NoGet /\ answer'.key = key) =>
              /\ key \notin DeclaredKeys =>
                    answer'.raise = "ValueError"
              /\ key \in DeclaredKeys =>
                    /\ answer'.raise = ""
                    /\ Observe(answer'.value, heap) = Observe(values[key], heap)
              /\ UNCHANGED <<opt_specs, pos_specs, values, heap, arguments,
                             result, returned>>]_vars

\* C15 witness: after a load that captured -g, get has returned the value
\* of debug
C15_Witness ==
    /\ config = DefaultConfig
    /\ \E c \in Calls : pc[c] = "done" /\ args[c] = <<Chars("-g"), Chars("main.c")>>
    /\ answer = [key |-> "debug", raise |-> "", value |-> PyBool(TRUE)]

\* C16: a token assigned to the positional declaration at the cursor moves
\* the cursor by one if the declaration has no count, moves it exactly when
\* the key holds n values if its count is the integer n, and leaves it if
\* its count is '*' or '+'; a token claimed by an option leaves the cursor.
C16_CursorAdvancement ==
    [][\A c \in Calls :
          (Scanning(c) /\ StepOf(c) /\ pc'[c] = "scan") =>
              IF Matching(CurArg(c)) # {}
              THEN pos_index'[c] = pos_index[c]
              ELSE LET spec == pos_specs[pos_index[c] + 1]
                       held == Len(Observe(values'[spec.key], heap').items)
                   IN  IF "count" \notin DOMAIN spec.conf
                       THEN pos_index'[c] = pos_index[c] + 1
                       ELSE IF spec.conf["count"].t = "int"
                       THEN /\ pos_index'[c] \in {pos_index[c], pos_index[c] + 1}
                            /\ pos_index'[c] = pos_index[c] + 1
                                  <=> held = spec.conf["count"].n
                       ELSE pos_index'[c] = pos_index[c]]_vars

\* the pattern holds a group of at least one character
ContainsGroup(patt) ==
    \E i, j \in 1 .. Len(patt) : patt[i] = "(" /\ patt[j] = ")" /\ j > i + 1

\* C17: registering an option without a given type gives it group 1 if it
\* has a count and its pattern a group, next-token if it has a count and no
\* group, and switch if it has no count; a switch without a given default
\* gets the default false; a given type or default is kept.
C17_TypeInference ==
    [][(Len(opt_specs') = Len(opt_specs) + 1) =>
          LET d      == config[NumRegistered + 1]
              kwargs == opt_specs'[Len(opt_specs')].conf
          IN  /\ opt_specs'[Len(opt_specs')].key = d.key
              /\ opt_specs'[Len(opt_specs')].patt = d.patt
              /\ ("count" \in DOMAIN kwargs) = ("count" \in DOMAIN d.conf)
              /\ "type" \in DOMAIN kwargs
              /\ kwargs["type"] =
                    IF "type" \in DOMAIN d.conf THEN d.conf["type"]
                    ELSE IF "count" \notin DOMAIN d.conf THEN Word("switch")
                    ELSE IF ContainsGroup(d.patt) THEN PyInt(1)
                    ELSE Word("next")
              /\ "default" \in DOMAIN d.conf =>
                    /\ kwargs["default"] = d.conf["default"]
                    /\ values'[d.key] = d.conf["default"]
              /\ ("default" \notin DOMAIN d.conf /\ kwargs["type"] = Word("switch")) =>
                    /\ "default" \in DOMAIN kwargs
                    /\ kwargs["default"] = PyBool(FALSE)
              /\ ("default" \notin DOMAIN d.conf /\ kwargs["type"] # Word("switch")) =>
                    "default" \notin DOMAIN kwargs]_vars

\* C17 witness: the default grammar is registered: a switch by inference
\* with its default false, a group-1 option by inference, and an option
\* whose given type and default were kept
C17_Witness ==
    /\ config = DefaultConfig
    /\ Registered
    /\ opt_specs[2].conf = [type |-> Word("switch"), default |-> PyBool(FALSE)]
    /\ opt_specs[4].conf = [count |-> Word("*"), type |-> PyInt(1)]
    /\ opt_specs[8].conf = [type |-> Word("next"), default |-> Word("a.out")]
    /\ values["optimize"] = PyBool(FALSE)

\* the declaration that takes the token call c is about to dispatch
Taker(c) ==
    IF Matching(CurArg(c)) # {}
    THEN opt_specs[CHOOSE i \in Matching(CurArg(c)) : Claims(i, CurArg(c))]
    ELSE pos_specs[pos_index[c] + 1]

\* the value that declaration takes from it
Taken(c) ==
    LET spec == Taker(c)
    IN  IF spec.patt = None THEN PyStr(CurArg(c))
        ELSE IF spec.conf["type"] = Word("switch") THEN PyBool(TRUE)
        ELSE IF spec.conf["type"] = Word("next")
        THEN PyStr(args[c][position[c] + 2])
        ELSE PyStr(SubSeq(CurArg(c), Len(Literal(spec.patt)) + 1, Len(CurArg(c))))

\* C18: a captured value is appended at the end of the sequence of a
\* declaration with a count and replaces the value of a declaration without
\* one, and no other key changes; so the first load of -lm -lm main.c with
\* the default grammar gives lib = [m, m] and input = [main.c].
C18_AppendOrOverwrite ==
    [][/\ \A c \in Calls :
            (Scanning(c) /\ StepOf(c) /\ pc'[c] = "scan") =>
                LET spec == Taker(c)
                    old  == Observe(values[spec.key], heap)
                    new  == Observe(values'[spec.key], heap')
                IN  /\ IF "count" \in DOMAIN spec.conf
                       THEN new.items = Append(old.items, Taken(c))
                       ELSE new = Seen(Taken(c))
                    /\ \A k \in DOMAIN values \ {spec.key} :
                          Observe(values'[k], heap') = Observe(values[k], heap)
       /\ ( /\ config = DefaultConfig
            /\ pc'[1] = "done"
            /\ args'[1] = <<Chars("-lm"), Chars("-lm"), Chars("main.c")>> )
          => /\ returned'[1]["lib"] = SeenList(<<Chars("m"), Chars("m")>>)
             /\ returned'[1]["input"] = SeenList(<<Chars("main.c")>>)]_vars

\* C18 witness: the first load of -lm -lm main.c with the default grammar
\* has returned
C18_Witness ==
    /\ config = DefaultConfig
    /\ pc[1] = "done"
    /\ args[1] = <<Chars("-lm"), Chars("-lm"), Chars("main.c")>>
    /\ Len(returned[1]["lib"].items) = 2

\* the positional declaration takes any number of values
OpenEnded(spec) ==
    "count" \in DOMAIN spec.conf /\ spec.conf["count"].t # "int"

\* the key is declared once
DeclaredOnce(opts, poss, k) ==
    Cardinality({n \in 1 .. Len(opts \o poss) : (opts \o poss)[n].key = k}) = 1

\* C19: the cursor of a scan that rests on an open-ended positional
\* declaration stays there, and a positional declaration registered after
\* an open-ended one keeps its default.
C19_OpenEndedKeepsCursor ==
    [][/\ \A c \in Calls :
            ( /\ pc[c] = "scan"
              /\ pc'[c] = "scan"
              /\ pos_index[c] < Len(pos_specs)
              /\ OpenEnded(pos_specs[pos_index[c] + 1]) )
            => pos_index'[c] = pos_index[c]
       /\ \A i, j \in 1 .. Len(pos_specs') :
            (i < j /\ OpenEnded(pos_specs'[i]) /\ DeclaredOnce(opt_specs', pos_specs', pos_specs'[j].key))
            => /\ Observe(values'[pos_specs'[j].key], heap')
                     = SeenDefault(pos_specs'[j])
               /\ \A c \in Calls :
                     pc'[c] = "done" =>
                        returned'[c][pos_specs'[j].key] = SeenDefault(pos_specs'[j])]_vars

\* C19 witness: a load of three positional tokens has returned, the
\* open-ended declaration holds two of them and the one after it its default
C19_Witness ==
    /\ config = OpenConfig
    /\ \E c \in Calls :
          /\ pc[c] = "done"
          /\ Len(args[c]) = 3
          /\ Len(returned[c]["rest"].items) = 2
          /\ returned[c]["last"] = Seen(NoneVal)

====
